---- MODULE Spec2Model ----
(***************************************************************************)
(* Model of py_utils/mssql_db.py: a process-wide pyodbc connection, the    *)
(* query helpers built on it, and the helpers that shape result sets.      *)
(*                                                                         *)
(* Strings are sequences of one-character strings, so that lower() and the *)
(* two regular-expression substitutions act on characters as re does.      *)
(***************************************************************************)
EXTENDS Integers, Sequences, FiniteSets, TLC

\* this_config, this_database: the module's two globals.
\* live, closed: the handles pyodbc.connect returned that are open, closed.
\* connectCalls: how often pyodbc.connect was called.
\* openCursors: the cursors opened on the current connection and not closed.
\* lastGot: the handle get_db returned last, since the last close().
\* call: the caller's last call and its outcome.
VARIABLES this_config, this_database, live, closed,
          connectCalls, openCursors, lastGot, call

vars == <<this_config, this_database, live, closed,
          connectCalls, openCursors, lastGot, call>>

conn_vars == <<this_config, this_database, live, closed,
               connectCalls, openCursors, lastGot>>

\* ------------------------------------------------------------------ bounds

MaxLen == 4        \* longest column name explored by normalize
MaxCols == 3       \* longest cursor description explored by get_column_names
MaxRows == 2       \* most rows a driver result set holds
MaxSets == 2       \* most result sets the driver returns to execute_sp
MaxArgs == 2       \* most entries of in_args
MaxConnects == 2   \* most calls of pyodbc.connect in one behaviour
MaxResults == 2    \* longest results list handed to get_out_arg directly
MaxCursors == 1    \* most cursors left open on one connection

\* ----------------------------------------------------------------- strings

UpperChars == <<"A","B","C","D","E","F","G","H","I","J","K","L","M",
                "N","O","P","Q","R","S","T","U","V","W","X","Y","Z">>
LowerChars == <<"a","b","c","d","e","f","g","h","i","j","k","l","m",
                "n","o","p","q","r","s","t","u","v","w","x","y","z">>
DigitChars == <<"0","1","2","3","4","5","6","7","8","9">>

Range(s) == {s[i] : i \in DOMAIN s}

IsUpper(c) == c \in Range(UpperChars)
IsLower(c) == c \in Range(LowerChars)
IsDigit(c) == c \in Range(DigitChars)

\* str.lower() on one ASCII character
LowerChar(c) ==
  IF IsUpper(c) THEN LowerChars[CHOOSE i \in DOMAIN UpperChars : UpperChars[i] = c]
  ELSE c

\* str.lower()
lower(s) == [i \in DOMAIN s |-> LowerChar(s[i])]

\* str(n) for an integer n
RECURSIVE NatStr(_)
NatStr(n) == IF n < 10 THEN <<DigitChars[n + 1]>>
             ELSE NatStr(n \div 10) \o <<DigitChars[(n % 10) + 1]>>

IntStr(n) == IF n < 0 THEN <<"-">> \o NatStr(0 - n) ELSE NatStr(n)

\* ------------------------------------------------- normalize_column_name

\* end of the greedy run [a-z]+ that starts at index k of s
RECURSIVE LowerRunEnd(_, _)
LowerRunEnd(s, k) ==
  IF k + 1 <= Len(s) /\ IsLower(s[k + 1]) THEN LowerRunEnd(s, k + 1) ELSE k

\* re.sub('(.)([A-Z][a-z]+)', r'\1_\2', s), scanning from index i
RECURSIVE Sub1From(_, _)
Sub1From(s, i) ==
  IF i > Len(s) THEN <<>>
  ELSE IF i + 2 <= Len(s) /\ IsUpper(s[i + 1]) /\ IsLower(s[i + 2])
       THEN LET j == LowerRunEnd(s, i + 2)
            IN  <<s[i], "_">> \o SubSeq(s, i + 1, j) \o Sub1From(s, j + 1)
       ELSE <<s[i]>> \o Sub1From(s, i + 1)

\* re.sub('([a-z0-9])([A-Z])', r'\1_\2', s), scanning from index i
RECURSIVE Sub2From(_, _)
Sub2From(s, i) ==
  IF i > Len(s) THEN <<>>
  ELSE IF i + 1 <= Len(s) /\ (IsLower(s[i]) \/ IsDigit(s[i])) /\ IsUpper(s[i + 1])
       THEN <<s[i], "_", s[i + 1]>> \o Sub2From(s, i + 2)
       ELSE <<s[i]>> \o Sub2From(s, i + 1)

\* the same function with the final .lower() forgotten
normalize_no_lower(name) == Sub2From(Sub1From(name, 1), 1)

normalize_column_name(name) == lower(Sub2From(Sub1From(name, 1), 1))

\* ------------------------------------------------------ get_column_names

COLUMN_ == <<"C","O","L","U","M","N","_">>

\* A cursor description is modelled by its column names (description[i][0]);
\* an empty or missing name is the empty string.
get_column_names(result_set_description) ==
  [k \in DOMAIN result_set_description |->
     LET column_name == result_set_description[k]
     IN  normalize_column_name(
           IF column_name = <<>> THEN COLUMN_ \o IntStr(k - 1) ELSE column_name)]

\* ------------------------------------------- result_as_dict and friends

Min(a, b) == IF a < b THEN a ELSE b

\* dict(zip([field.lower() for field in schema], row)): zip stops at the
\* shorter argument and a repeated key keeps the value of its last column.
result_as_dict(schema, row) ==
  LET n    == Min(Len(schema), Len(row))
      keys == {lower(schema[i]) : i \in 1..n}
  IN  [k \in keys |->
         row[CHOOSE i \in 1..n :
               /\ lower(schema[i]) = k
               /\ \A j \in 1..n : lower(schema[j]) = k => j <= i]]

\* the same list with its last row left out
result_set_drops_last(schema, rows) ==
  [i \in 1..(Len(rows) - 1) |-> result_as_dict(schema, rows[i])]

result_set_as_dicts(schema, rows) ==
  [i \in DOMAIN rows |-> result_as_dict(schema, rows[i])]

\* ------------------------------------------------ entries of a results list

\* One element of the list execute_sp builds.  The tag records which Python
\* value it is: "dicts" a list of dicts, "names" a list of column names,
\* "raw" the list of rows fetchall returned.  Cells are integers.
Entry(tag, val) == [tag |-> tag, val |-> val]

NoEntry == Entry("none", <<>>)

\* s in t for two strings
IsSubstring(s, t) ==
  \E i \in 0..(Len(t) - Len(s)) : SubSeq(t, i + 1, i + Len(s)) = s

\* key in entry[0], for an entry that has a first element
FirstContains(entry, key) ==
  CASE entry.tag = "dicts" -> key \in DOMAIN entry.val[1]
    [] entry.tag = "names" -> IsSubstring(key, entry.val[1])
    [] OTHER               -> FALSE   \* a row of integers holds no string

\* An optional string argument: None, or the string s.
None == [none |-> TRUE, s |-> <<>>]
Some(s) == [none |-> FALSE, s |-> s]
Truthy(arg) == ~arg.none /\ arg.s # <<>>

\* ---------------------------------------------------------- get_out_arg

Outcome(status, value, name) == [status |-> status, value |-> value, name |-> name]

get_out_arg(results, out_arg) ==
  LET out           == lower(out_arg)
      results_count == Len(results)
  IN  IF results_count < 1 THEN Outcome("ProgrammingError", 0, out)
      ELSE LET last == results[results_count]
           IN  IF Len(last.val) < 1 THEN Outcome("IndexError", 0, <<>>)
               ELSE IF ~FirstContains(last, out)
                    THEN Outcome("ProgrammingError", 0, out)
               ELSE IF last.tag = "dicts" THEN Outcome("ok", last.val[1][out], <<>>)
               ELSE Outcome("TypeError", 0, <<>>)

\* ---------------------------------------------------- get_sp_result_set

SetOutcome(status, sentinel, entry) ==
  [status |-> status, sentinel |-> sentinel, entry |-> entry]

\* index is 0-based, as in the source
get_sp_result_set(results, index, out_arg) ==
  LET results_set_count == Len(results)
  IN  IF results_set_count < 1 THEN SetOutcome("ok", TRUE, NoEntry)
      ELSE IF results_set_count = 1 /\ Truthy(out_arg) /\ Len(results[1].val) < 1
           THEN SetOutcome("IndexError", FALSE, NoEntry)
      ELSE IF results_set_count = 1 /\ Truthy(out_arg)
              /\ FirstContains(results[1], out_arg.s)
           THEN SetOutcome("ok", TRUE, NoEntry)
      ELSE IF index + 1 > results_set_count
           THEN SetOutcome("IndexError", FALSE, NoEntry)
      ELSE SetOutcome("ok", FALSE, results[index + 1])

\* ------------------------------------- execute_sp: the statement it builds

\* A value bound to a parameter: None, an integer or a string.
Null == [t |-> "null", n |-> 0, s |-> <<>>]
IntVal(n) == [t |-> "int", n |-> n, s |-> <<>>]
StrVal(s) == [t |-> "str", n |-> 0, s |-> s]

\* str(value)
str(v) == IF v.t = "int" THEN StrVal(IntStr(v.n)) ELSE v

\* sql.rstrip(', ')
RECURSIVE rstrip(_)
rstrip(s) ==
  IF s # <<>> /\ s[Len(s)] \in {",", " "} THEN rstrip(SubSeq(s, 1, Len(s) - 1))
  ELSE s

DECLARE_AT == <<"D","E","C","L","A","R","E"," ","@">>
INTEGER_EXEC_AT == <<" ","I","N","T","E","G","E","R",";","E","X","E","C"," ","@">>
EXEC_ == <<"E","X","E","C"," ">>
SELECT_AT == <<"S","E","L","E","C","T"," ","@">>
AS_ == <<" ","A","S"," ">>

\* in_args is a dict: a sequence of [key, value] in iteration order
RECURSIVE BindFrom(_, _)
BindFrom(in_args, i) ==
  IF i > Len(in_args) THEN [sql |-> <<>>, in_params |-> <<>>]
  ELSE LET rest     == BindFrom(in_args, i + 1)
           in_param == in_args[i].value
       IN  [sql       |-> <<"@">> \o in_args[i].key \o <<" ","="," ","?",","," ">>
                          \o rest.sql,
            in_params |-> <<(IF in_param.t # "null" THEN str(in_param) ELSE in_param)>>
                          \o rest.in_params]

\* the same loop with the append left inside the "is not None" branch
RECURSIVE BindSkipsNone(_, _)
BindSkipsNone(in_args, i) ==
  IF i > Len(in_args) THEN [sql |-> <<>>, in_params |-> <<>>]
  ELSE LET rest     == BindSkipsNone(in_args, i + 1)
           in_param == in_args[i].value
       IN  [sql       |-> <<"@">> \o in_args[i].key \o <<" ","="," ","?",","," ">>
                          \o rest.sql,
            in_params |-> (IF in_param.t # "null" THEN <<str(in_param)>> ELSE <<>>)
                          \o rest.in_params]

sp_statement_skips_none(sp_name, in_args, out_arg) ==
  LET out  == lower(out_arg.s)
      head == IF Truthy(out_arg)
              THEN DECLARE_AT \o out \o INTEGER_EXEC_AT \o out \o <<" ","="," ">>
                     \o sp_name \o <<" ">>
              ELSE EXEC_ \o sp_name \o <<" ">>
      b    == BindSkipsNone(in_args, 1)
      tail == IF ~out_arg.none
              THEN SELECT_AT \o out \o AS_ \o out \o <<";">>
              ELSE <<>>
  IN  [sql |-> rstrip(head \o b.sql) \o <<";">> \o tail, in_params |-> b.in_params]

sp_statement(sp_name, in_args, out_arg) ==
  LET out  == lower(out_arg.s)
      head == IF Truthy(out_arg)
              THEN DECLARE_AT \o out \o INTEGER_EXEC_AT \o out \o <<" ","="," ">>
                     \o sp_name \o <<" ">>
              ELSE EXEC_ \o sp_name \o <<" ">>
      b    == BindFrom(in_args, 1)
      tail == IF ~out_arg.none
              THEN SELECT_AT \o out \o AS_ \o out \o <<";">>
              ELSE <<>>
  IN  [sql |-> rstrip(head \o b.sql) \o <<";">> \o tail, in_params |-> b.in_params]

\* ------------------------------------------- execute_sp: the result loop

\* What the driver holds for one result of the batch:
\*   kind "cols"   a result set with column metadata: desc, rows
\*   kind "nocols" fetchall succeeds and the description is empty
\*   kind "none"   not a query: fetchall raises pyodbc.ProgrammingError
DriverSet(kind, desc, rows) == [kind |-> kind, desc |-> desc, rows |-> rows]

\* the body of the try block for one result
sp_entries(set, as_dict) ==
  IF set.kind = "none" THEN <<>>
  ELSE LET result_set   == set.rows
           column_names == get_column_names(set.desc)
       IN  IF Len(column_names) > 0
           THEN IF as_dict
                THEN <<Entry("dicts", result_set_as_dicts(column_names, result_set))>>
                ELSE <<Entry("names", column_names), Entry("raw", result_set)>>
           ELSE <<Entry("raw", result_set)>>

\* the loop that stops after the first result
sp_results_first_only(sets, n, as_dict) ==
  IF n >= 1 THEN sp_entries(sets[1], as_dict) ELSE <<>>

\* the while loop over the first n results, cursor.nextset() between them
RECURSIVE sp_results(_, _, _)
sp_results(sets, n, as_dict) ==
  IF n = 0 THEN <<>>
  ELSE sp_results(sets, n - 1, as_dict) \o sp_entries(sets[n], as_dict)

\* --------------------------------------------------------------- get_db

NoHandle == 0

\* auth: how pyodbc.connect was called, "" when it was not
GetDbResult(status, handle, auth) ==
  [status |-> status, handle |-> handle, auth |-> auth,
   connected |-> (auth # ""), opened |-> (IF status = "ok" /\ auth # "" THEN {handle} ELSE {})]

\* the two pyodbc.connect calls, both with autocommit=True; the handle of
\* the n-th connect call is n
Connect(connect_ok) ==
  LET auth == IF this_config.trusted THEN "Trusted_Connection=yes" ELSE "uid,pwd"
  IN  IF connect_ok THEN GetDbResult("ok", connectCalls + 1, auth)
      ELSE GetDbResult("ConnectError", NoHandle, auth)

\* get_db without the "db is None" test
get_db_always_connects(connect_ok) ==
  IF ~this_config.set THEN GetDbResult("TypeError", NoHandle, "")
  ELSE Connect(connect_ok)

\* connect_ok: whether pyodbc.connect succeeds, should it be called
get_db(connect_ok) ==
  IF this_database # NoHandle THEN GetDbResult("ok", this_database, "")
  ELSE IF ~this_config.set THEN GetDbResult("TypeError", NoHandle, "")
  ELSE Connect(connect_ok)

\* the assignments of one get_db call whose result is g
ApplyGetDb(g) ==
  /\ this_database' = (IF g.status = "ok" THEN g.handle ELSE this_database)
  /\ live' = live \cup g.opened
  /\ connectCalls' = connectCalls + (IF g.connected THEN 1 ELSE 0)
  /\ lastGot' = (IF g.status = "ok" THEN g.handle ELSE lastGot)
  /\ UNCHANGED <<this_config, closed>>

\* the outcomes of pyodbc.connect, where get_db would call it
ConnectOutcomes ==
  IF this_database # NoHandle \/ ~this_config.set THEN {TRUE} ELSE BOOLEAN

\* pyodbc.connect is called at most MaxConnects times in a behaviour
CanGetDb == this_database # NoHandle \/ ~this_config.set \/ connectCalls < MaxConnects

\* -------------------------------------------------------------- inputs

Id == <<"I","d">>
Name == <<"N","a","m","e">>
UserID == <<"U","s","e","r","I","D">>
user_id == <<"u","s","e","r","_","i","d">>
rowcount == <<"r","o","w","c","o","u","n","t">>
RowCount == <<"R","o","w","C","o","u","n","t">>

SeqsUpTo(S, n) == UNION {[1..k -> S] : k \in 0..n}

Alphabet == {"A", "B", "a", "b", "1", "_"}
ColumnNames == SeqsUpTo(Alphabet, MaxLen)

Descriptions == SeqsUpTo({<<>>, Id, <<"a","B">>}, MaxCols)

ConfigKeys == {"DB_DRIVER", "DB_SERVER", "DB_NAME", "DB_USER", "DB_PASSWORD",
               "DB_TRUSTED_CONNECTION"}
Configs == [keys : {ConfigKeys, ConfigKeys \ {"DB_PASSWORD"}}, trusted : BOOLEAN]

Cells == {1, 2}
QueryDescriptions == {<<Id>>, <<UserID, user_id>>, <<<<>>, Name>>}
QueryResults ==
  UNION {[desc : {d}, rows : SeqsUpTo([1..Len(d) -> Cells], MaxRows)] :
           d \in QueryDescriptions}

CountingRows(k) == [i \in 1..k |-> <<i>>]
DriverSets ==
  {DriverSet("none", <<>>, <<>>), DriverSet("nocols", <<>>, <<<<1>>>>)}
  \cup {DriverSet("cols", <<Id>>, CountingRows(k)) : k \in {0, MaxRows}}
  \cup {DriverSet("cols", <<rowcount>>, <<<<5>>>>)}
DriverBatches == SeqsUpTo(DriverSets, MaxSets) \ {<<>>}

OutArgs == {None, Some(RowCount), Some(rowcount)}

ArgKeys == {<<"a">>, <<"b","2">>, <<"C">>}
ArgValues == {Null, IntVal(7), IntVal(0 - 12), StrVal(<<"x">>)}
InArgs ==
  {a \in SeqsUpTo([key : ArgKeys, value : ArgValues], MaxArgs) :
     \A i, j \in DOMAIN a : a[i].key = a[j].key => i = j}
SpInArgs == {<<[key |-> <<"a">>, value |-> IntVal(7)], [key |-> <<"b","2">>, value |-> Null]>>}

sp_name == <<"p">>

ResultEntries ==
  {Entry("dicts", <<>>), Entry("raw", <<>>), Entry("raw", <<<<5>>>>),
   Entry("dicts", <<result_as_dict(<<rowcount>>, <<5>>)>>),
   Entry("dicts", <<result_as_dict(<<Id>>, <<1>>)>>)}
ResultLists == SeqsUpTo(ResultEntries, MaxResults)

\* ---------------------------------------------------------------- Init

Init ==
  /\ this_config = [set |-> FALSE, trusted |-> FALSE]
  /\ this_database = NoHandle
  /\ live = {}
  /\ closed = {}
  /\ connectCalls = 0
  /\ openCursors = 0
  /\ lastGot = NoHandle
  /\ call = [op |-> "none"]

\* The caller holds the outcome of its last call in `call`; a new call starts
\* once the caller has let go of it.
Idle == call.op = "none"

Discard ==
  /\ ~Idle
  /\ call' = [op |-> "none"]
  /\ UNCHANGED conn_vars

\* ------------------------------------------------------------- init_db

\* config[...] raises KeyError on a missing key, before this._config is set
InitDb ==
  /\ Idle
  /\ \E config \in Configs :
       IF ConfigKeys \subseteq config.keys
       THEN /\ this_config' = [set |-> TRUE, trusted |-> config.trusted]
            /\ call' = [op |-> "init_db", status |-> "ok"]
       ELSE /\ this_config' = this_config
            /\ call' = [op |-> "init_db", status |-> "KeyError"]
  /\ UNCHANGED <<this_database, live, closed, connectCalls,
                 openCursors, lastGot>>

\* ------------------------------------------------------- get_db, close

GetDb ==
  /\ Idle
  /\ CanGetDb
  /\ \E connect_ok \in ConnectOutcomes :
       LET g == get_db(connect_ok)
       IN  /\ ApplyGetDb(g)
           /\ call' = [op         |-> "get_db",
                       status     |-> g.status,
                       ret        |-> g.handle,
                       connected  |-> g.connected,
                       auth       |-> g.auth,
                       prevGot    |-> lastGot,
                       afterClose |-> (lastGot = NoHandle /\ closed # {})]
  /\ UNCHANGED openCursors

\* close() that closes the connection and keeps this._database
CloseKeepsHandle ==
  /\ Idle
  /\ IF this_database # NoHandle
     THEN /\ live' = live \ {this_database}
          /\ closed' = closed \cup {this_database}
          /\ openCursors' = 0
     ELSE UNCHANGED <<live, closed, openCursors>>
  /\ lastGot' = NoHandle
  /\ call' = [op |-> "close"]
  /\ UNCHANGED <<this_config, this_database, connectCalls>>

\* Closing a connection frees the statements still open on it.
Close ==
  /\ Idle
  /\ IF this_database # NoHandle
     THEN /\ live' = live \ {this_database}
          /\ closed' = closed \cup {this_database}
          /\ this_database' = NoHandle
          /\ openCursors' = 0
     ELSE UNCHANGED <<live, closed, this_database, openCursors>>
  /\ lastGot' = NoHandle
  /\ call' = [op |-> "close"]
  /\ UNCHANGED <<this_config, connectCalls>>

\* ------------------------------------------------ fetch_rows, fetch_row

Ret(val) == [isNone |-> FALSE, val |-> val]
RetNone == [isNone |-> TRUE, val |-> <<>>]

FetchCall(op, status, desc, rows, ret) ==
  [op |-> op, status |-> status, desc |-> desc, rows |-> rows, ret |-> ret]

\* fail: the driver call that raises, if any.  A raise leaves the function
\* before cursor.close().
FetchRows ==
  /\ Idle
  /\ CanGetDb
  /\ \E connect_ok \in ConnectOutcomes :
       LET g == get_db(connect_ok)
       IN  /\ ApplyGetDb(g)
           /\ IF g.status # "ok"
              THEN /\ call' = FetchCall("fetch_rows", g.status, <<>>, <<>>, RetNone)
                   /\ UNCHANGED openCursors
              ELSE \E fail \in {"none", "execute", "fetch"} :
                     IF fail # "none"
                     THEN /\ openCursors < MaxCursors
                          /\ openCursors' = openCursors + 1
                          /\ call' = FetchCall("fetch_rows", "DriverError", <<>>, <<>>,
                                               RetNone)
                     ELSE \E q \in QueryResults :
                            LET rows         == q.rows
                                column_names == get_column_names(q.desc)
                            IN  /\ UNCHANGED openCursors
                                /\ call' = FetchCall("fetch_rows", "ok", q.desc, rows,
                                     IF Len(rows) < 1 THEN Ret(<<>>)
                                     ELSE Ret(result_set_as_dicts(column_names, rows)))

\* fetchone returns the first row the query yields, or None
FetchRow ==
  /\ Idle
  /\ CanGetDb
  /\ \E connect_ok \in ConnectOutcomes :
       LET g == get_db(connect_ok)
       IN  /\ ApplyGetDb(g)
           /\ IF g.status # "ok"
              THEN /\ call' = FetchCall("fetch_row", g.status, <<>>, <<>>, RetNone)
                   /\ UNCHANGED openCursors
              ELSE \E fail \in {"none", "execute", "fetch"} :
                     IF fail # "none"
                     THEN /\ openCursors < MaxCursors
                          /\ openCursors' = openCursors + 1
                          /\ call' = FetchCall("fetch_row", "DriverError", <<>>, <<>>,
                                               RetNone)
                     ELSE \E q \in QueryResults :
                            LET column_names == get_column_names(q.desc)
                            IN  /\ UNCHANGED openCursors
                                /\ call' = FetchCall("fetch_row", "ok", q.desc, q.rows,
                                     IF q.rows = <<>> THEN RetNone
                                     ELSE Ret(result_as_dict(column_names, q.rows[1])))

\* ----------------------------------------------------------- execute_sp

SpCall(status, name, out_arg, as_dict, sets, fail, results, stmt) ==
  [op |-> "execute_sp", status |-> status, name |-> name, out_arg |-> out_arg,
   as_dict |-> as_dict, sets |-> sets, fail |-> fail, results |-> results,
   sql |-> stmt.sql, in_params |-> stmt.in_params]

NoStmt == [sql |-> <<>>, in_params |-> <<>>]

\* sets: the results the driver holds for the batch, in order; fail: the
\* driver call that raises something other than what the loop catches.
ExecuteSp ==
  /\ Idle
  /\ CanGetDb
  /\ \E connect_ok \in ConnectOutcomes, in_args \in SpInArgs, out_arg \in OutArgs,
        as_dict \in BOOLEAN :
       LET stmt == sp_statement(sp_name, in_args, out_arg)
           g    == get_db(connect_ok)
       IN  /\ ApplyGetDb(g)
           /\ IF g.status # "ok"
              THEN /\ call' = SpCall(g.status, <<>>, out_arg, as_dict, <<>>, "get_db",
                                     <<>>, NoStmt)
                   /\ UNCHANGED openCursors
              ELSE \E fail \in {"none", "execute", "fetch", "nextset"} :
                     IF fail # "none"
                     THEN /\ openCursors < MaxCursors
                          /\ openCursors' = openCursors + 1
                          /\ call' = SpCall("DriverError", <<>>, out_arg, as_dict, <<>>,
                                            fail, <<>>, stmt)
                     ELSE \E sets \in DriverBatches :
                            LET results == sp_results(sets, Len(sets), as_dict)
                                v       == IF Truthy(out_arg)
                                           THEN get_out_arg(results, lower(out_arg.s))
                                           ELSE Outcome("ok", 0, <<>>)
                            IN  /\ UNCHANGED openCursors
                                /\ call' = SpCall(v.status, v.name, out_arg, as_dict,
                                                  sets, "none", results, stmt)

\* get_sp_result_set on what the last execute_sp returned, with its out_arg
GetSpResultSet ==
  /\ call.op = "execute_sp"
  /\ call.status = "ok"
  /\ \E index \in 0..(IF Len(call.results) > 1 THEN Len(call.results) - 1 ELSE 0) :
       LET r == get_sp_result_set(call.results, index, call.out_arg)
       IN  call' = [op |-> "get_sp_result_set", results |-> call.results,
                    out_arg |-> call.out_arg, index |-> index, status |-> r.status,
                    sentinel |-> r.sentinel, entry |-> r.entry]
  /\ UNCHANGED conn_vars

Next ==
  \/ InitDb
  \/ GetDb
  \/ Close
  \/ FetchRows
  \/ FetchRow
  \/ ExecuteSp
  \/ GetSpResultSet
  \/ Discard

Spec == Init /\ [][Next]_vars

\* ------------------------------------------- the helpers on bounded inputs

NormalizeColumnName ==
  /\ Idle
  /\ \E name \in ColumnNames :
       call' = [op |-> "normalize_column_name", name |-> name,
                ret |-> normalize_column_name(name)]
  /\ UNCHANGED conn_vars

GetColumnNames ==
  /\ Idle
  /\ \E d \in Descriptions :
       call' = [op |-> "get_column_names", desc |-> d, ret |-> get_column_names(d)]
  /\ UNCHANGED conn_vars

GetOutArg ==
  /\ Idle
  /\ \E results \in ResultLists, out_arg \in {RowCount, rowcount} :
       LET v == get_out_arg(results, out_arg)
       IN  call' = [op |-> "get_out_arg", results |-> results, out_arg |-> out_arg,
                    status |-> v.status, value |-> v.value, name |-> v.name]
  /\ UNCHANGED conn_vars

SpStatement ==
  /\ Idle
  /\ \E in_args \in InArgs, out_arg \in OutArgs :
       LET stmt == sp_statement(sp_name, in_args, out_arg)
       IN  call' = [op |-> "sp_statement", in_args |-> in_args, out_arg |-> out_arg,
                    sql |-> stmt.sql, in_params |-> stmt.in_params]
  /\ UNCHANGED conn_vars

HelperNext ==
  \/ NormalizeColumnName
  \/ GetColumnNames
  \/ GetOutArg
  \/ SpStatement
  \/ Discard

HelperSpec == Init /\ [][HelperNext]_vars

\* ================================================================ claims

\* C1: a get_db call made after an earlier one returned, with no close
\* between them, returns the same handle without calling pyodbc.connect;
\* a get_db call made after a close(), with no get_db having returned since,
\* calls pyodbc.connect and what it returns is a live handle that is none of
\* the closed ones.
ConnectionReuse ==
  call.op = "get_db" =>
    /\ call.prevGot # NoHandle =>
         call.status = "ok" /\ call.ret = call.prevGot /\ ~call.connected
    /\ call.afterClose =>
         /\ call.connected
         /\ call.status = "ok" => call.ret \notin closed /\ call.ret \in live

\* a handle is reused after an earlier one was closed and replaced
ConnectionReuseWitness ==
  /\ call.op = "get_db"
  /\ call.status = "ok"
  /\ call.prevGot # NoHandle
  /\ ~call.connected
  /\ closed # {}

\* C2: at most one handle opened through the module is live, and the stored
\* handle is absent or is that live handle.
AtMostOneLiveHandle ==
  /\ Cardinality(live) <= 1
  /\ this_database = NoHandle \/ live = {this_database}

\* a second handle is live after the first was closed, in a stored-procedure call
AtMostOneLiveHandleWitness ==
  /\ call.op = "execute_sp"
  /\ closed # {}
  /\ live = {this_database}

\* C3: no cursor is left open after any call, whichever way the call ends.
CursorsAlwaysReleased == openCursors = 0

\* the result the driver holds last among those fetchall can read
LastCaptured(sets) ==
  LET idx == {i \in DOMAIN sets : sets[i].kind # "none"}
  IN  IF idx = {} THEN 0 ELSE CHOOSE i \in idx : \A j \in idx : j <= i

\* the last captured result set has a row and a column named as the out
\* argument, lowercased
HoldsOutValue(sets, out_arg) ==
  LET i == LastCaptured(sets)
  IN  /\ i # 0
      /\ Len(sets[i].rows) >= 1
      /\ lower(out_arg.s) \in Range(get_column_names(sets[i].desc))

\* the driver's last result is the row of the trailing SELECT of the out
\* variable
ReturnedOutSelect(sets, out_arg) ==
  /\ sets # <<>>
  /\ sets[Len(sets)].kind = "cols"
  /\ sets[Len(sets)].desc = <<lower(out_arg.s)>>
  /\ Len(sets[Len(sets)].rows) = 1

\* C4: an execute_sp call with an out_arg, whose driver calls all succeed,
\* returns or raises the error that names the parameter, and it returns,
\* whatever as_dict is, when the driver returned the trailing SELECT of the
\* out variable.
OutArgValidated ==
  (call.op = "execute_sp" /\ call.fail = "none" /\ Truthy(call.out_arg)
     /\ ReturnedOutSelect(call.sets, call.out_arg)) =>
    /\ HoldsOutValue(call.sets, call.out_arg)
    /\ call.status = "ok"

\* C5: get_out_arg returns the value under the lowercased out_arg in the
\* first record of the last result set when there is one, and raises the
\* "not captured" error naming it in every other case.
GetOutArgTotal ==
  call.op = "get_out_arg" =>
    LET n    == Len(call.results)
        key  == lower(call.out_arg)
        held == /\ n >= 1
                /\ call.results[n].tag = "dicts"
                /\ Len(call.results[n].val) >= 1
                /\ key \in DOMAIN call.results[n].val[1]
    IN  IF held
        THEN call.status = "ok" /\ call.value = call.results[n].val[1][key]
        ELSE call.status = "ProgrammingError" /\ call.name = key

\* the single result set of results is the row that holds the out value
IsOutMarker(results, out_arg) ==
  /\ Len(results) = 1
  /\ Truthy(out_arg)
  /\ results[1].tag = "dicts"
  /\ Len(results[1].val) >= 1
  /\ lower(out_arg.s) \in DOMAIN results[1].val[1]

\* C6: get_sp_result_set, on what execute_sp returned and with the out_arg
\* given to it, returns the sentinel for an empty list and for a single
\* result set that is the out-value row, and results[index] otherwise.
ResultSetGuardsMarker ==
  call.op = "get_sp_result_set" =>
    /\ call.status = "ok"
    /\ IF Len(call.results) = 0 \/ IsOutMarker(call.results, call.out_arg)
       THEN call.sentinel
       ELSE ~call.sentinel /\ call.entry = call.results[call.index + 1]

\* C7: fetch_rows returns one record per row the driver returned, in the
\* driver's order, keyed by the normalized column names, each key holding
\* the cell of the last column of that name; with no rows it returns an
\* empty sequence, not None.
FetchAllRecords ==
  (call.op = "fetch_rows" /\ call.status = "ok") =>
    LET names == get_column_names(call.desc)
    IN  /\ ~call.ret.isNone
        /\ Len(call.ret.val) = Len(call.rows)
        /\ \A i \in DOMAIN call.rows :
             /\ DOMAIN call.ret.val[i] = Range(names)
             /\ \A j \in DOMAIN names :
                  (\A k \in DOMAIN names : k > j => names[k] # names[j])
                    => call.ret.val[i][names[j]] = call.rows[i][j]

\* two rows that differ come back from a query with an unnamed column
FetchAllRecordsWitness ==
  /\ call.op = "fetch_rows"
  /\ call.status = "ok"
  /\ Len(call.rows) >= 2
  /\ call.rows[1] # call.rows[2]
  /\ call.desc[1] = <<>>

\* C8: normalize_column_name leaves its own results unchanged, also those
\* get_column_names returns, where an unnamed column at 0-based index i is
\* named column_<i>.
NormalizeIdempotent ==
  /\ call.op = "normalize_column_name" =>
       normalize_column_name(call.ret) = call.ret
  /\ call.op = "get_column_names" =>
       \A i \in DOMAIN call.desc :
         /\ normalize_column_name(call.ret[i]) = call.ret[i]
         /\ call.desc[i] = <<>> =>
              call.ret[i] = <<"c","o","l","u","m","n","_">> \o IntStr(i - 1)

\* a name both substitutions change
NormalizeIdempotentWitness ==
  /\ call.op = "normalize_column_name"
  /\ call.name = <<"A","B","a","B">>
  /\ call.ret = <<"a","_","b","a","_","b">>

\* the positions of the placeholders of a statement, in order
Placeholders(sql) == {i \in DOMAIN sql : sql[i] = "?"}
NthPlaceholder(sql, n) ==
  CHOOSE p \in Placeholders(sql) :
    Cardinality({q \in Placeholders(sql) : q < p}) = n - 1

\* C9: the statement holds one "@key = ?" per entry of in_args, in order,
\* separated by ", " and closed by ";", and the parameter list holds, in
\* the same order, str(value) for each value that is not None and None for
\* each that is.
InArgsBoundOneToOne ==
  call.op = "sp_statement" =>
    LET n == Len(call.in_args)
    IN  /\ Cardinality(Placeholders(call.sql)) = n
        /\ Len(call.in_params) = n
        /\ \A i \in 1..n :
             LET p    == NthPlaceholder(call.sql, i)
                 text == <<"@">> \o call.in_args[i].key \o <<" ","="," ","?">>
                 v    == call.in_args[i].value
             IN  /\ p >= Len(text)
                 /\ SubSeq(call.sql, p - Len(text) + 1, p) = text
                 /\ IF i < n
                    THEN SubSeq(call.sql, p + 1, p + 3) = <<",", " ", "@">>
                    ELSE call.sql[p + 1] = ";"
                 /\ call.in_params[i].t = (IF v.t = "null" THEN "null" ELSE "str")
                 /\ v.t = "str" => call.in_params[i].s = v.s
                 /\ v.t = "int" => call.in_params[i].s = IntStr(v.n)

\* two entries, the first of them None
InArgsBoundOneToOneWitness ==
  /\ call.op = "sp_statement"
  /\ Len(call.in_args) = 2
  /\ call.in_args[1].value.t = "null"
  /\ call.in_args[2].value.t = "int"

\* the results of the driver that fetchall can read: its result sets
IsResultSet(set) == set.kind # "none"

Width(set, as_dict) ==
  CASE set.kind = "none"   -> 0
    [] set.kind = "nocols" -> 1
    [] OTHER               -> IF as_dict THEN 1 ELSE 2

RECURSIVE Offset(_, _, _)
Offset(sets, i, as_dict) ==
  IF i <= 1 THEN 0 ELSE Offset(sets, i - 1, as_dict) + Width(sets[i - 1], as_dict)

====
